---- MODULE Spec2Model ----
(***************************************************************************)
(* switflake: Snowflake-style 64-bit identifiers.                          *)
(*                                                                         *)
(* ThreadIdPool is one AtomicU8 whose bit i says that slot i is taken;     *)
(* Switflake::new takes a slot, Switflake::generate_id packs               *)
(* timestamp | node_id | thread_id | local_counter, Drop gives the slot    *)
(* back.                                                                   *)
(*                                                                         *)
(* Machine words are modelled as the set of the positions of their 1 bits  *)
(* (bit 0 is the least significant): a u8 is a subset of 0..7, a u64 a     *)
(* subset of 0..63, a u128 a subset of 0..127.  &, | and ! are then        *)
(* intersection, union and complement, and << moves every position up and  *)
(* drops what leaves the word.  Values the code does arithmetic on         *)
(* (local_counter, the loop index i, thread_id) are numbers and are        *)
(* converted where the code casts them.                                    *)
(***************************************************************************)
EXTENDS Integers, FiniteSets, Sequences, TLC

\* ------------------------------------------------------------------ bounds

\* threads that may be inside Switflake::new at the same time
NumThreads == 2
\* Spec: generators dropped in one run
MaxDrops == 1
\* Spec: generators built in one run
MaxGens == 9
\* Spec: calls of generate_id in one run
MaxMints == 1

\* SpecIds: generators built, generators dropped and identifiers returned
IdsGens == 2
IdsDrops == 1
IdsMints == 2
\* SpecSeq: the calls of one generator that may read any clock of SeqClocks
SeqFree == 3
LiveGens == 3
LiveDrops == 2

\* --------------------------------------------------------------- constants

\* for i in 0..8
NumSlots == 8
\* if self.local_counter == 0xFF
CounterMax == 255

\* ------------------------------------------------------------------- words

U8 == 0 .. 7
U64 == 0 .. 63

BitAnd(a, b) == a \cap b
BitOr(a, b) == a \cup b
\* !x on a u8
Not8(a) == U8 \ a
\* x << k on a u8 and on a u64: the bits shifted out are lost
Shl8(a, k) == {j + k : j \in a} \cap U8
Shl64(a, k) == {j + k : j \in a} \cap U64

\* 0x1FFFFFFFFFF, 0xFFF and 0x7FF
Mask41 == 0 .. 40
Mask12 == 0 .. 11
Mask11 == 0 .. 10

\* a number below 2^16 as a word, and a word within bits 0..15 as a number
FromNat(n) == {j \in 0 .. 15 : (n \div (2 ^ j)) % 2 = 1}
RECURSIVE ToNat(_)
ToNat(a) == IF a = {} THEN 0
            ELSE LET j == CHOOSE x \in a : TRUE IN (2 ^ j) + ToNat(a \ {j})

\* ---------------------------------------------------------------- the pool

VARIABLES
  used_ids,   \* ThreadIdPool.used_ids, a u8
  gens,       \* every Switflake built so far, in order of construction: its
              \* fields, whether it is still alive, and (arg) the node id
              \* that was passed to new
  call,       \* per thread: where it is inside Switflake::new
  obs,        \* per thread: what its latest call of new read and returned
  ids,        \* per generator: the identifiers it returned, in order
  overlap,    \* pairs <<g, h>>, g < h, of generators alive at the same time
  last        \* the latest call of generate_id: its inputs and its result

vars == <<used_ids, gens, call, obs, ids, overlap, last>>

Threads == 1 .. NumThreads

\* is_full with the negation lost: used_ids.load(SeqCst) != 0
is_full_nonzero(w) == w # {}
\* is_full off by one bit: full as soon as bits 0..6 are set
is_full_seven(w) == Not8(w) \subseteq {7}

\* !self.used_ids.load(SeqCst) == 0, on the value loaded
is_full(w) == Not8(w) = {}

\* release by fetch_xor(1 << id): the bit is toggled, not cleared
release_toggled(w, id) ==
  (w \ Shl8(FromNat(1), id)) \cup (Shl8(FromNat(1), id) \ w)

\* release with the complement lost: mask = 1 << id
release_unmasked(w, id) == BitAnd(w, Shl8(FromNat(1), id))

\* mask = !(1 << id); fetch_and(mask): the value stored
release(w, id) == BitAnd(w, Not8(Shl8(FromNat(1), id)))

\* a compare_exchange that stores new_value also when it fails
exchange_failure_stores(w, new_value) == new_value

\* the word after a compare_exchange that returned Err: nothing is stored
exchange_failure(w, new_value) == w

\* a compare_exchange that always returns Err
compare_exchange_never(w, current) == FALSE

\* compare_exchange replaced by a plain store
compare_exchange_store(w, current) == TRUE

\* compare_exchange(current, new_value): whether it stores new_value
compare_exchange(w, current) == w = current

\* for i in 0..8 { mask = 1 << i; if current & mask == 0 { ... } }: the first
\* index at or after `from` whose bit is clear in current; NumSlots when the
\* for loop runs out
RECURSIVE for_next(_, _)
for_next(current, from) ==
  IF from >= NumSlots THEN NumSlots
  ELSE IF BitAnd(current, Shl8(FromNat(1), from)) = {} THEN from
  ELSE for_next(current, from + 1)

\* the node id stored as it was passed
new_node_id_unmasked(node_id) == node_id

\* node_id: node_id & 0xFFF
new_node_id(node_id) == BitAnd(node_id, Mask12)

InFlight == {t \in Threads : call[t].pc # "idle"}
RECURSIVE Minted(_)
Minted(g) == IF g = 0 THEN 0 ELSE Len(ids[g]) + Minted(g - 1)

Live == {g \in 1 .. Len(gens) : gens[g].alive}
Dropped == {g \in 1 .. Len(gens) : ~gens[g].alive}
Holders(s) == {g \in Live : gens[g].thread_id = s}

\* the two errors of Switflake::new: its own (is_full) and acquire's
ErrPoolFull == "Thread pool full (max 8 simultaneous threads)"
ErrNoIds == "No available thread IDs (max 8)"
\* the two errors of generate_id
ErrSequence == "Sequence limit reached for this millisecond"
ErrClock == "Time went backwards"

Idle == [pc |-> "idle", node_id |-> {}, current |-> {}, i |-> 0]
NoObs == [res |-> "none", sawFull |-> FALSE, below8 |-> FALSE]
NoLast == [gen |-> 0, res |-> "none", clock |-> [ok |-> FALSE, ms |-> {}],
           counter |-> 0, id |-> {}]

Init ==
  /\ used_ids = {}
  /\ gens = <<>>
  /\ call = [t \in Threads |-> Idle]
  /\ obs = [t \in Threads |-> NoObs]
  /\ ids = <<>>
  /\ overlap = {}
  /\ last = NoLast

\* Switflake::new up to the return of is_full: one load of used_ids
NewBegin(t, n) ==
  /\ call[t].pc = "idle"
  /\ IF is_full(used_ids)
       THEN /\ call' = [call EXCEPT ![t] = Idle]
            /\ obs' = [obs EXCEPT ![t] =
                 [res |-> ErrPoolFull, sawFull |-> used_ids = U8,
                  below8 |-> Cardinality(Live) < NumSlots]]
       ELSE /\ call' = [call EXCEPT ![t] =
                 [pc |-> "acquire", node_id |-> n, current |-> {}, i |-> 0]]
            /\ obs' = [obs EXCEPT ![t] =
                 [res |-> "pending", sawFull |-> used_ids = U8,
                  below8 |-> Cardinality(Live) < NumSlots]]
  /\ UNCHANGED <<used_ids, gens, ids, overlap, last>>

\* acquire, top of the loop: the load, the full test and the scan of the for
\* loop up to its first compare_exchange
AcquireLoad(t) ==
  /\ call[t].pc = "acquire"
  /\ LET current == used_ids IN
       IF is_full(current)
         THEN /\ call' = [call EXCEPT ![t] = Idle]
              /\ obs' = [obs EXCEPT ![t].res = ErrNoIds, ![t].sawFull = current = U8]
         ELSE /\ call' = [call EXCEPT ![t].pc = "cas", ![t].current = current,
                                      ![t].i = for_next(current, 0)]
              /\ obs' = [obs EXCEPT ![t].sawFull = @ \/ current = U8]
  /\ UNCHANGED <<used_ids, gens, ids, overlap, last>>

\* acquire, one compare_exchange of the for loop.  On success new returns the
\* Switflake; on failure the for loop goes on with the same `current`, and the
\* outer loop loads again only when the for loop has run out.
AcquireCas(t) ==
  /\ call[t].pc = "cas"
  /\ LET current == call[t].current
         i == call[t].i
         mask == Shl8(FromNat(1), i)
         new_value == BitOr(current, mask)
         g == Len(gens) + 1
     IN
       IF compare_exchange(used_ids, current)
         THEN /\ used_ids' = new_value
              /\ gens' = Append(gens, [alive |-> TRUE, thread_id |-> i,
                                       node_id |-> new_node_id(call[t].node_id),
                                       arg |-> call[t].node_id,
                                       local_counter |-> 0])
              /\ ids' = Append(ids, <<>>)
              /\ overlap' = overlap \cup {<<h, g>> : h \in Live}
              /\ call' = [call EXCEPT ![t] = Idle]
              /\ obs' = [u \in Threads |->
                   IF u = t THEN [obs[u] EXCEPT !.res = "Ok"]
                   ELSE IF call[u].pc = "idle" THEN obs[u]
                   ELSE [obs[u] EXCEPT
                           !.below8 = @ /\ Cardinality(Live) + 1 < NumSlots]]
         ELSE /\ LET j == for_next(current, i + 1) IN
                   call' = [call EXCEPT ![t].pc = IF j = NumSlots THEN "acquire" ELSE "cas",
                                        ![t].i = IF j = NumSlots THEN 0 ELSE j,
                                        ![t].current = IF j = NumSlots THEN {} ELSE current]
              /\ used_ids' = exchange_failure(used_ids, new_value)
              /\ UNCHANGED <<gens, ids, overlap, obs>>
  /\ UNCHANGED last

\* Drop for Switflake: release(self.thread_id), one fetch_and
Drop(g) ==
  /\ g \in Live
  /\ used_ids' = release(used_ids, gens[g].thread_id)
  /\ gens' = [gens EXCEPT ![g].alive = FALSE]
  /\ UNCHANGED <<call, obs, ids, overlap, last>>

\* ----------------------------------------------------------- generate_id

\* A reading of SystemTime::now(): before the epoch (duration_since fails), or
\* the milliseconds since the epoch as the u128 as_millis returns.
BeforeEpoch == [ok |-> FALSE, ms |-> {}]
At(ms) == [ok |-> TRUE, ms |-> ms]

\* x as u64, of a u128: the low 64 bits
as_u64(x) == x \cap U64

\* .as_millis() as u64 & 0x1FFFFFFFFFF
timestamp_of(ms) == BitAnd(as_u64(ms), Mask41)

\* the slot shifted by 7 instead of 8
sequence_of_shift7(thread_id, local_counter) ==
  BitOr(Shl64(FromNat(thread_id), 7), FromNat(local_counter))

\* (self.thread_id as u64) << 8 | (self.local_counter as u64)
sequence_of(thread_id, local_counter) ==
  BitOr(Shl64(FromNat(thread_id), 8), FromNat(local_counter))

\* (timestamp << 23) | (self.node_id << 11) | (sequence & 0x7FF)
make_id(timestamp, node_id, sequence) ==
  BitOr(BitOr(Shl64(timestamp, 23), Shl64(node_id, 11)), BitAnd(sequence, Mask11))

\* the limit test one late: local_counter > 0xFF
exhausted_late(local_counter) == local_counter > CounterMax

\* if self.local_counter == 0xFF
exhausted(local_counter) == local_counter = CounterMax

\* the counter left as it is
next_counter_stuck(local_counter) == local_counter

\* self.local_counter += 1
next_counter(local_counter) == local_counter + 1

\* the clock read before the limit test
outcome_clock_first(local_counter, clock) ==
  IF ~clock.ok THEN ErrClock
  ELSE IF exhausted(local_counter) THEN ErrSequence
  ELSE "Ok"

\* a clock before the epoch read as 0 ms instead of returned as an error
outcome_clock_ignored(local_counter, clock) ==
  IF exhausted(local_counter) THEN ErrSequence ELSE "Ok"

\* which return generate_id takes: the limit test on local_counter, then the
\* `?` on duration_since, then Ok(id)
outcome(local_counter, clock) ==
  IF exhausted(local_counter) THEN ErrSequence
  ELSE IF ~clock.ok THEN ErrClock
  ELSE "Ok"

GenerateId(g, clock) ==
  /\ g \in Live
  /\ LET self == gens[g]
         res == outcome(self.local_counter, clock)
     IN
       IF res # "Ok"
         THEN /\ last' = [gen |-> g, res |-> res, clock |-> clock,
                          counter |-> self.local_counter, id |-> {}]
              /\ UNCHANGED <<gens, ids>>
       ELSE LET timestamp == timestamp_of(clock.ms)
                sequence == sequence_of(self.thread_id, self.local_counter)
                id == make_id(timestamp, self.node_id, sequence)
            IN /\ gens' = [gens EXCEPT ![g].local_counter = next_counter(self.local_counter)]
               /\ ids' = [ids EXCEPT ![g] = Append(@, id)]
               /\ last' = [gen |-> g, res |-> "Ok", clock |-> clock,
                           counter |-> self.local_counter, id |-> id]
  /\ UNCHANGED <<used_ids, call, obs, overlap>>

\* ------------------------------------------------------------------- Spec
\* Threads race in Switflake::new while generators are used and dropped.

SpecNodes == {FromNat(1)}
SpecClocks == {At(FromNat(5))}

New(t) == \E n \in SpecNodes : Len(gens) < MaxGens /\ NewBegin(t, n)
Load(t) == AcquireLoad(t)
Cas(t) == AcquireCas(t)
DropOne(g) == Cardinality(Dropped) < MaxDrops /\ Drop(g)
Mint(g) == \E clock \in SpecClocks : Minted(Len(ids)) < MaxMints /\ GenerateId(g, clock)

Next ==
  \/ \E t \in Threads : New(t)
  \/ \E t \in Threads : Load(t)
  \/ \E t \in Threads : Cas(t)
  \/ \E g \in 1 .. Len(gens) : DropOne(g)
  \/ \E g \in 1 .. Len(gens) : Mint(g)

Spec == Init /\ [][Next]_vars

\* ------------------------------------------------------------ claims, Spec

PoolErrors == {ErrPoolFull, ErrNoIds}
LowestFree(w) == CHOOSE s \in U8 \ w : \A r \in U8 \ w : s <= r
\* the step builds a generator, and Built is the one it builds
Builds == Len(gens') = Len(gens) + 1
Built == gens'[Len(gens')]

\* C1: bit i of used_ids is set if and only if exactly one live generator
\* holds slot i: no two live generators have the same thread_id, and no bit
\* is set without a live holder.
C1_PoolInvariant ==
  /\ \A s \in U8 : s \in used_ids <=> Cardinality(Holders(s)) = 1
  /\ \A g \in Live, h \in Live : g # h => gens[g].thread_id # gens[h].thread_id
  /\ \A g \in Live : gens[g].thread_id \in U8
\* the pool is full, a slot has been released and taken again, a generator has
\* been used and a call of new is in flight
C1_Witness ==
  /\ Cardinality(Live) = NumSlots
  /\ \E g \in Dropped, h \in Live : g < h /\ gens[g].thread_id = gens[h].thread_id
  /\ \E g \in Live : gens[g].local_counter > 0
  /\ InFlight # {}

\* C3: from an empty pool the first 8 constructions, with no destruction in
\* between, all succeed; while 8 generators are alive no call of new gets
\* past is_full and every one returns the pool-full error; a step taken while
\* fewer than 8 are alive never ends a call with the pool-full error.
C3_FirstEight ==
  (Dropped = {} /\ Len(gens) < NumSlots) => \A t \in Threads : obs[t].res \notin PoolErrors
C3_Step ==
  /\ Cardinality(Live) = NumSlots =>
       /\ ~Builds
       /\ \A t \in Threads : (call[t].pc = "idle" /\ obs'[t] # obs[t]) =>
            (call'[t].pc = "idle" /\ obs'[t].res = ErrPoolFull)
  /\ Cardinality(Live) < NumSlots =>
       \A t \in Threads : obs'[t].res \in PoolErrors => obs'[t] = obs[t]
C8_LowestFreeWins ==
  [][Builds => Built.thread_id = LowestFree(used_ids)]_vars

\* C9: a generator's bit stays set while it is alive; a bit is cleared only by
\* the destruction of the generator that holds it, which clears that bit and
\* no other; a dropped generator never comes back, and a call of new that
\* fails clears nothing.
C9_HeldWhileAlive == \A g \in Live : gens[g].thread_id \in used_ids
C9_Step ==
  /\ \A s \in U8 : (s \in used_ids /\ s \notin used_ids') =>
       \E g \in Live : /\ gens[g].thread_id = s
                       /\ ~gens'[g].alive
                       /\ \A h \in Live \ {g} : gens'[h].alive
  /\ \A g \in Live : ~gens'[g].alive =>
       /\ gens[g].thread_id \in used_ids
       /\ used_ids' = used_ids \ {gens[g].thread_id}
  /\ \A g \in Dropped : ~gens'[g].alive
  /\ \A t \in Threads : (obs'[t].res \in PoolErrors /\ obs'[t] # obs[t]) =>
       used_ids' = used_ids
C9_ReleasedOnceAtDrop == [](C9_HeldWhileAlive) /\ [][C9_Step]_vars
\* a released slot in the hands of a later generator, next to a failed call
C9_Witness ==
  /\ \E g \in Dropped, h \in Live : g < h /\ gens[g].thread_id = gens[h].thread_id
  /\ \E t \in Threads : obs[t].res \in PoolErrors

\* C10: new returns the pool-full error only if a load of used_ids made by
\* that call read all 8 bits set; a call during which fewer than 8 generators
\* are alive throughout never returns it.
C10_FullOnlyIfSeen ==
  \A t \in Threads : obs[t].res \in PoolErrors =>
    (obs[t].sawFull /\ ~obs[t].below8)
\* is_full passed, and then the load inside acquire read a full word
C10_Witness ==
  \E t \in Threads : obs[t].res = ErrNoIds /\ obs[t].sawFull

\* ---------------------------------------------------------------- SpecIds
\* A few generators, built by racing threads with node ids of more than 12
\* bits, return identifiers at clocks that repeat, advance, go back and wrap
\* at 2^41 ms.

\* 1 and 0x1FFF
IdsNodes == {FromNat(1), 0 .. 12}
\* 5 ms, 6 ms, 2^41 + 5 ms, and a clock before the epoch
IdsClocks == {At(FromNat(5)), At(FromNat(6)), At(FromNat(5) \cup {41}), BeforeEpoch}

IdsNew(t) == \E n \in IdsNodes : Len(gens) < IdsGens /\ NewBegin(t, n)
IdsDrop(g) == Cardinality(Dropped) < IdsDrops /\ Drop(g)
IdsMint(g) == \E clock \in IdsClocks : Minted(Len(ids)) < IdsMints /\ GenerateId(g, clock)

NextIds ==
  \/ \E t \in Threads : IdsNew(t)
  \/ \E t \in Threads : AcquireLoad(t)
  \/ \E t \in Threads : AcquireCas(t)
  \/ \E g \in 1 .. Len(gens) : IdsDrop(g)
  \/ \E g \in 1 .. Len(gens) : IdsMint(g)

SpecIds == Init /\ [][NextIds]_vars

\* ---------------------------------------------------------------- SpecSeq
\* One generator is used until its counter is exhausted.  Its first SeqFree
\* calls read any clock of SeqClocks; the later ones read 5 ms, 2^41 + 5 ms
\* (the same 41-bit timestamp) or a clock before the epoch.

\* 1, 0x1FFF and u64::MAX
SeqNodes == {FromNat(1), 0 .. 12, U64}
SeqClocks == IdsClocks
SeqLateClocks == {At(FromNat(5)), At(FromNat(5) \cup {41}), BeforeEpoch}

SeqNew(t) == \E n \in SeqNodes : Len(gens) = 0 /\ InFlight = {} /\ NewBegin(t, n)
SeqMint(g) == \E clock \in SeqClocks :
  /\ gens[g].local_counter < SeqFree \/ clock \in SeqLateClocks
  /\ GenerateId(g, clock)

NextSeq ==
  \/ \E t \in Threads : SeqNew(t)
  \/ \E t \in Threads : AcquireLoad(t)
  \/ \E t \in Threads : AcquireCas(t)
  \/ \E g \in 1 .. Len(gens) : SeqMint(g)

SpecSeq == Init /\ [][NextSeq]_vars

\* ---------------------------------------------------------------- SpecEnc
\* generate_id as a function of (clock, node id, slot, counter).  Init is any
\* state with one live generator in slot s whose counter is c: the state
\* reached by building s + 1 generators with node id n, dropping the first
\* s, and calling generate_id c times at 5 ms.  One call follows.

\* 1, 0x1000, 0x1FFF and u64::MAX
EncNodes == {FromNat(1), {12}, 0 .. 12, U64}
\* 5 ms, 2^41 - 1 ms, 2^41 + 5 ms, 2^64 + 5 ms, 2^128 - 1 ms, and a clock
\* before the epoch
EncClocks == {At(FromNat(5)), At(0 .. 40), At(FromNat(5) \cup {41}),
              At(FromNat(5) \cup {64}), At(0 .. 127), BeforeEpoch}

InitEnc ==
  \E s \in 0 .. NumSlots - 1, n \in EncNodes, c \in 0 .. CounterMax :
    /\ used_ids = Shl8(FromNat(1), s)
    /\ gens = [g \in 1 .. s + 1 |->
                 [alive |-> g = s + 1, thread_id |-> g - 1,
                  node_id |-> new_node_id(n), arg |-> n,
                  local_counter |-> IF g = s + 1 THEN c ELSE 0]]
    /\ call = [t \in Threads |-> Idle]
    /\ obs = [t \in Threads |-> IF t = 1 THEN [NoObs EXCEPT !.res = "Ok", !.below8 = TRUE]
                                ELSE NoObs]
    /\ ids = [g \in 1 .. s + 1 |->
                IF g = s + 1
                  THEN [k \in 1 .. c |->
                          make_id(timestamp_of(FromNat(5)), new_node_id(n),
                                  sequence_of(s, k - 1))]
                  ELSE <<>>]
    /\ overlap = {<<g, h>> \in (1 .. s + 1) \X (1 .. s + 1) : g < h}
    /\ last = IF c = 0 THEN NoLast
              ELSE [gen |-> s + 1, res |-> "Ok", clock |-> At(FromNat(5)),
                    counter |-> c - 1,
                    id |-> make_id(timestamp_of(FromNat(5)), new_node_id(n),
                                   sequence_of(s, c - 1))]

\* the state is one of InitEnc: no call yet, or only successful calls at 5 ms
EncStart == last = NoLast \/ (last.res = "Ok" /\ last.clock = At(FromNat(5)))

EncMint(g) == \E clock \in EncClocks : EncStart /\ GenerateId(g, clock)

NextEnc == \E g \in 1 .. Len(gens) : EncMint(g)

SpecEnc == InitEnc /\ [][NextEnc]_vars

\* -------------------------------------------------------- claims, the ids

\* the bits lo .. lo + width - 1 of a word, moved down to bit 0
Field(id, lo, width) == {j - lo : j \in {x \in id : lo <= x /\ x < lo + width}}
\* a word modulo 2^k
Low(x, k) == {j \in x : j < k}
Ids(g) == {ids[g][k] : k \in 1 .. Len(ids[g])}

\* C2: every identifier of one generator differs from every identifier of
\* any generator that was alive at the same time, in bits 10..8, whatever the
\* clocks and the node ids.
C2_OverlappingDisjoint ==
  \A p \in overlap : \A a \in Ids(p[1]), b \in Ids(p[2]) :
    /\ a # b
    /\ Field(a, 8, 3) # Field(b, 8, 3)
\* two generators alive together returned identifiers at the same clock with
\* the same node id and the same counter
C2_Witness ==
  \E p \in overlap : \E a \in Ids(p[1]), b \in Ids(p[2]) :
    /\ Field(a, 11, 53) = Field(b, 11, 53)
    /\ Field(a, 0, 8) = Field(b, 0, 8)

\* C4: the identifiers one generator returns are pairwise distinct (as a set
\* they are as many as the successful calls), for any number of calls up to
\* 255 and any sequence of clock readings.
C4_DistinctWithinGenerator ==
  \A g \in 1 .. Len(ids) : Cardinality(Ids(g)) = Len(ids[g])
\* 255 identifiers, returned at clocks that first advanced, then stood still,
\* then went back
C4_Witness ==
  \E g \in 1 .. Len(ids) :
    /\ Len(ids[g]) = CounterMax
    /\ ToNat(Field(ids[g][1], 23, 8)) < ToNat(Field(ids[g][2], 23, 8))
    /\ Field(ids[g][2], 23, 41) = Field(ids[g][3], 23, 41)
    /\ ToNat(Field(ids[g][3], 23, 8)) > ToNat(Field(ids[g][4], 23, 8))

\* C5: with a valid clock the first 255 calls of a generator succeed, with
\* counters 0..254, and the 256th fails with the sequence error: a generator
\* returns exactly 255 identifiers.
C5_SequenceLimit ==
  /\ \A g \in 1 .. Len(gens) :
       /\ Len(ids[g]) <= CounterMax
       /\ \A k \in 1 .. Len(ids[g]) : ToNat(Field(ids[g][k], 0, 8)) = k - 1
  /\ last.res # "none" =>
       /\ (last.clock.ok /\ last.counter < CounterMax) => last.res = "Ok"
       /\ last.res = "Ok" =>
            (last.counter = Len(ids[last.gen]) - 1 /\ last.counter <= CounterMax - 1)
       /\ last.res = ErrSequence => Len(ids[last.gen]) = CounterMax
       /\ (last.clock.ok /\ Len(ids[last.gen]) = CounterMax /\ last.res = "Ok") =>
            last.counter = CounterMax - 1
\* the 256th call with a valid clock has failed
C5_Witness ==
  /\ last.res = ErrSequence
  /\ last.clock.ok
  /\ Len(ids[last.gen]) = CounterMax
  /\ ToNat(Field(ids[last.gen][CounterMax], 0, 8)) = CounterMax - 1

\* (t mod 2^41) * 2^23 + (n mod 2^12) * 2^11 + s * 2^8 + c in binary: the four
\* terms lie in bits 63..23, 22..11, 10..8 and 7..0, so the sum has no carry
Expected(t, n, s, c) ==
  {j + 23 : j \in Low(t, 41)} \cup {j + 11 : j \in Low(n, 12)}
    \cup {j + 8 : j \in FromNat(s)} \cup FromNat(c)

\* C6: a successful generate_id returns
\* (t mod 2^41) * 2^23 + (n mod 2^12) * 2^11 + s * 2^8 + c, c the counter
\* before the call; decoding by >> 23, >> 11 & 0xFFF and & 0x7FF gives back
\* the masked timestamp, the node id and (s << 8) | c, and the 11-bit mask
\* loses neither the slot nor the counter.
C6_BitLayout ==
  last.res = "Ok" =>
    LET self == gens[last.gen]
        t == last.clock.ms
        s == self.thread_id
        c == last.counter
        id == last.id
    IN /\ s \in 0 .. 7 /\ c \in 0 .. 254
       /\ FromNat(s) \subseteq 0 .. 2 /\ FromNat(c) \subseteq 0 .. 7
       /\ id = Expected(t, self.arg, s, c)
       /\ Field(id, 23, 41) = Low(t, 41)
       /\ Field(id, 11, 12) = Low(self.arg, 12)
       /\ ToNat(Field(id, 0, 11)) = s * 256 + c
       /\ ToNat(Field(id, 8, 3)) = s
       /\ ToNat(Field(id, 0, 8)) = c
\* slot 7, counter 254, node id u64::MAX, at 2^128 - 1 ms
C6_Witness ==
  /\ last.res = "Ok"
  /\ gens[last.gen].thread_id = 7
  /\ last.counter = 254
  /\ gens[last.gen].arg = U64
  /\ last.clock.ms = 0 .. 127
  /\ last.id = U64 \ {0}

\* C7: new rejects no node id and keeps its low 12 bits: the node field of
\* every identifier is node_id mod 4096, and the bits above bit 11 of the
\* node id passed reach neither the timestamp field nor the sequence field.
C7_NodeTruncated ==
  /\ \A t \in Threads : obs[t].res \notin PoolErrors
  /\ \A g \in 1 .. Len(gens) :
       /\ gens[g].node_id = Low(gens[g].arg, 12)
       /\ \A id \in Ids(g) :
            /\ Field(id, 11, 12) = Low(gens[g].arg, 12)
            /\ ToNat(Field(id, 8, 3)) = gens[g].thread_id
  /\ last.res = "Ok" =>
       /\ Field(last.id, 23, 41) = Low(last.clock.ms, 41)
       /\ ToNat(Field(last.id, 0, 11)) = gens[last.gen].thread_id * 256 + last.counter
\* new(0x1FFF), and an identifier with node field 0xFFF
C7_Witness ==
  /\ last.res = "Ok"
  /\ gens[last.gen].arg = 0 .. 12
  /\ ToNat(Field(last.id, 11, 12)) = 4095
  /\ Field(last.id, 23, 41) = FromNat(6)

\* ------------------------------------------------- claims, the counter

GenErrors == {ErrSequence, ErrClock}
\* the step is a call of generate_id on generator g
Calls(g) == last' # last /\ last'.gen = g

\* C11: a call of generate_id that reads a clock before the epoch while the
\* counter is below 255 fails with the clock error and leaves local_counter as
\* it was, so the next successful call uses that same counter value: the
\* counter goes up by 1 in a successful call and by 0 in a failed one, and it
\* always equals the number of identifiers returned.
C11_Counts ==
  /\ \A g \in 1 .. Len(gens) : gens[g].local_counter = Len(ids[g])
  /\ last.res # "none" =>
       /\ (~last.clock.ok /\ last.counter < CounterMax) => last.res = ErrClock
       /\ last.res \in GenErrors =>
            (gens[last.gen].local_counter = last.counter /\ last.id = {})
       /\ last.res = "Ok" =>
            /\ gens[last.gen].local_counter = last.counter + 1
            /\ ToNat(Field(last.id, 0, 8)) = last.counter
C11_Step ==
  \A g \in Live : Calls(g) =>
    /\ last'.counter = gens[g].local_counter
    /\ last'.res \in GenErrors => (gens' = gens /\ ids' = ids)
    /\ last'.res = "Ok" =>
         /\ gens'[g].local_counter = gens[g].local_counter + 1
         /\ Len(ids'[g]) = Len(ids[g]) + 1
    /\ (last.res = ErrClock /\ last.gen = g /\ last'.res = "Ok") =>
         last'.counter = last.counter
C11_ClockErrorKeepsCounter == [](C11_Counts) /\ [][C11_Step]_vars
\* a successful call, then the clock error at counter 2: two identifiers were
\* returned before it and the counter is still 2
C11_Witness ==
  /\ last.res = ErrClock
  /\ last.counter = 2
  /\ Len(ids[last.gen]) = 2
  /\ gens[last.gen].local_counter = 2

\* ------------------------------------------------ claims, the retry loop

\* the step is a compare_exchange of thread t that returned Err
FailedCas(t) == call[t].pc = "cas" /\ call'[t] # call[t] /\ call'[t].pc # "idle"

\* C12: after a failed compare_exchange, acquire loads used_ids again before
\* its next compare_exchange: no compare_exchange expects a value that was
\* loaded before an earlier failed compare_exchange of the same call.
C12_RereadAfterFailure ==
  [][\A t \in Threads : FailedCas(t) => call'[t].pc = "acquire"]_vars

\* --------------------------------------------------------------- SpecLive
\* Threads race in Switflake::new while generators are dropped, and a thread
\* that is inside new keeps running: every load and every compare_exchange
\* of a call in flight is eventually executed.  The other threads build and
\* drop only LiveGens and LiveDrops times, so they change used_ids only
\* finitely often.

LiveNew(t) == \E n \in SpecNodes : Len(gens) < LiveGens /\ NewBegin(t, n)
LiveDrop(g) == Cardinality(Dropped) < LiveDrops /\ Drop(g)

NextLive ==
  \/ \E t \in Threads : LiveNew(t)
  \/ \E t \in Threads : AcquireLoad(t)
  \/ \E t \in Threads : AcquireCas(t)
  \/ \E g \in 1 .. Len(gens) : LiveDrop(g)

Running == \A t \in Threads : WF_vars(AcquireLoad(t)) /\ WF_vars(AcquireCas(t))

SpecLive == Init /\ [][NextLive]_vars /\ Running

\* C13: under fair scheduling every call of new returns when the other
\* threads change used_ids only finitely often; a compare_exchange fails only
\* if used_ids differs from the value the call loaded, and used_ids is changed
\* only by a successful acquire or a release, so every failure is paid for by
\* another thread's progress.
C13_Returns == \A t \in Threads : (call[t].pc # "idle") ~> (call[t].pc = "idle")
C13_Step ==
  /\ \A t \in Threads : FailedCas(t) =>
       (used_ids # call[t].current /\ used_ids' = used_ids)
  /\ used_ids' # used_ids =>
       (Builds \/ \E g \in Live : ~gens'[g].alive)
  /\ \A t \in Threads : (call[t].pc = "acquire" /\ call'[t].pc = "cas") =>
       call'[t].current = used_ids
C13_LockFree == C13_Returns /\ [][C13_Step]_vars
\* a call lost a compare_exchange to another thread and still returned: the
\* second generator holds slot 1 although the first, in slot 0, was dropped
\* before it was built
C13_Witness ==
  /\ Len(gens) >= 2
  /\ ~gens[1].alive /\ gens[1].thread_id = 0
  /\ gens[2].thread_id = 1
  /\ <<1, 2>> \notin overlap
  /\ InFlight = {}

\* ---------------------------------------------- claims, the two errors

\* C14: once local_counter is 255 every later call of generate_id on that
\* generator fails with the sequence error, whatever the clock reads, also a
\* clock before the epoch: the limit test comes first.  Such a call changes
\* neither local_counter nor used_ids.
C14_Exhausted ==
  /\ \A g \in 1 .. Len(gens) : gens[g].local_counter <= CounterMax
  /\ (last.res # "none" /\ last.counter = CounterMax) => last.res = ErrSequence
  /\ last.res = ErrSequence =>
       (last.counter = CounterMax /\ gens[last.gen].local_counter = CounterMax)
C14_Step ==
  \A g \in Live : gens[g].local_counter = CounterMax =>
    /\ gens'[g].local_counter = CounterMax
    /\ Calls(g) =>
         /\ last'.res = ErrSequence
         /\ last'.id = {}
         /\ UNCHANGED <<used_ids, gens, ids, call, obs, overlap>>
C14_SequenceErrorFirst == [](C14_Exhausted) /\ [][C14_Step]_vars
\* an exhausted generator was called at a clock before the epoch and
\* returned the sequence error
C14_Witness ==
  /\ last.res = ErrSequence
  /\ ~last.clock.ok
  /\ gens[last.gen].local_counter = CounterMax
  /\ Len(ids[last.gen]) = CounterMax

\* --------------------------------------------------- claims, the writes

\* the step belongs to a call of new made by thread t
StepOfNew(t) == call'[t] # call[t] \/ (call[t].pc = "idle" /\ obs'[t] # obs[t])

\* C15: a call of new that fails with a pool error never writes used_ids:
\* the only step of a call of new that changes the word is the successful
\* compare_exchange that makes the call return Ok, and the step in which a
\* call returns a pool error leaves the word and the generators as they were.
C15_Step ==
  \A t \in Threads : StepOfNew(t) =>
    /\ used_ids' # used_ids =>
         (Builds /\ obs'[t].res = "Ok" /\ call'[t].pc = "idle")
    /\ obs'[t].res \in PoolErrors =>
         (call'[t].pc = "idle" /\ UNCHANGED <<used_ids, gens, ids, overlap, last>>)
C15_FailedNewWritesNothing == [][C15_Step]_vars
\* both failures have happened with the pool full: one call was turned away
\* by is_full, the other passed it, then read a full word inside acquire
C15_Witness ==
  /\ used_ids = U8
  /\ \E t \in Threads : obs[t].res = ErrPoolFull
  /\ \E t \in Threads : obs[t].res = ErrNoIds
  /\ InFlight = {}

\* C16: release(i) clears bit i of the word as it is at that moment and
\* leaves the other seven bits as they are, also while calls of new are in
\* flight; release of a slot that is already free leaves the word unchanged,
\* and a second release of the same slot changes nothing.
C16_Release ==
  \A i \in 0 .. NumSlots - 1 :
    /\ release(used_ids, i) = used_ids \ {i}
    /\ i \notin used_ids => release(used_ids, i) = used_ids
    /\ release(release(used_ids, i), i) = release(used_ids, i)
C16_Step ==
  \A g \in Live : ~gens'[g].alive =>
    /\ gens[g].thread_id \notin used_ids'
    /\ \A s \in U8 \ {gens[g].thread_id} : s \in used_ids' <=> s \in used_ids
    /\ call' = call
C16_ReleaseClearsOneBit == [](C16_Release) /\ [][C16_Step]_vars
\* a generator was dropped between the load and the compare_exchange of a
\* call of new, next to other live generators, and its slot is free
C16_Witness ==
  /\ \E g \in Dropped : gens[g].thread_id \notin used_ids
  /\ \E t \in Threads : call[t].pc = "cas" /\ call[t].current # used_ids
                        /\ used_ids \subseteq call[t].current
  /\ Cardinality(Live) >= 2

\* ---------------------------------------------------- claims, the order

\* a < b and a <= b, of two words read as unsigned numbers: the highest bit
\* in which they differ is set in b
Less(a, b) ==
  /\ a # b
  /\ LET d == (a \ b) \cup (b \ a)
         top == CHOOSE j \in d : \A k \in d : k <= j
     IN top \in b
Leq(a, b) == a = b \/ Less(a, b)

\* C17: for one generator, when the clock readings of successive successful
\* calls do not decrease and are below 2^41 ms, the identifiers returned are
\* strictly increasing as u64 values and their low 11 bits go up by exactly
\* 1.  Below 2^41 ms the timestamp field is the clock reading itself.
C17_Step ==
  \A g \in Live : (Calls(g) /\ last'.res = "Ok") =>
    LET id == last'.id
        t == last'.clock.ms
    IN /\ t \subseteq Mask41 => Field(id, 23, 41) = t
       /\ Len(ids[g]) > 0 =>
            LET prev == ids[g][Len(ids[g])]
            IN /\ ToNat(Field(id, 0, 11)) = ToNat(Field(prev, 0, 11)) + 1
               /\ (t \subseteq Mask41 /\ Leq(Field(prev, 23, 41), t)) => Less(prev, id)
C17_Increasing == [][C17_Step]_vars
\* 255 identifiers of one generator, the first three at 5 ms, 6 ms and 6 ms,
\* the last two at 5 ms: each greater than the one before it
C17_Witness ==
  \E g \in 1 .. Len(ids) :
    /\ Len(ids[g]) = CounterMax
    /\ Field(ids[g][1], 23, 41) = FromNat(5)
    /\ Field(ids[g][2], 23, 41) = FromNat(6)
    /\ Field(ids[g][3], 23, 41) = FromNat(6)
    /\ Less(ids[g][1], ids[g][2]) /\ Less(ids[g][2], ids[g][3])
    /\ Field(ids[g][CounterMax - 1], 23, 41) = Field(ids[g][CounterMax], 23, 41)
    /\ Less(ids[g][CounterMax - 1], ids[g][CounterMax])

\* ----------------------------------------------- claims, the lifetimes

\* C18: identifiers are unique across generator lifetimes: an identifier
\* returned by a generator is never returned again by a generator built
\* after that one was dropped, also when the new generator gets the same
\* slot, has the same node id and reads the same millisecond.
C18_UniqueAcrossLifetimes ==
  \A g \in 1 .. Len(gens), h \in 1 .. Len(gens) :
    (g < h /\ <<g, h>> \notin overlap) => Ids(g) \cap Ids(h) = {}

\* --------------------------------------------------------------- SpecWide
\* The pool is filled by racing threads, up to all 8 slots; then the
\* generator built last is called until its counter is exhausted, at a valid
\* clock and at a clock before the epoch, and dropped at any point.

WideClocks == {At(FromNat(5)), BeforeEpoch}

WideNew(t) == \E n \in SpecNodes :
  /\ Len(gens) < NumSlots /\ Dropped = {} /\ last = NoLast
  /\ NewBegin(t, n)
WideMint(g) == \E clock \in WideClocks :
  /\ g = Len(gens) /\ InFlight = {}
  /\ GenerateId(g, clock)
WideDrop(g) == g = Len(gens) /\ InFlight = {} /\ Drop(g)

NextWide ==
  \/ \E t \in Threads : WideNew(t)
  \/ \E t \in Threads : AcquireLoad(t)
  \/ \E t \in Threads : AcquireCas(t)
  \/ \E g \in 1 .. Len(gens) : WideMint(g)
  \/ \E g \in 1 .. Len(gens) : WideDrop(g)

SpecWide == Init /\ [][NextWide]_vars

\* C19: local_counter never overflows: it is always within 0..255, it never
\* goes down, and it goes up, by 1, only from a value below 255.  thread_id
\* is always within 0..7, as is every index acquire tries, so 1 << id stays
\* inside the 8-bit word in acquire and in release.
C19_Range ==
  /\ \A g \in 1 .. Len(gens) :
       /\ gens[g].local_counter \in 0 .. CounterMax
       /\ gens[g].thread_id \in 0 .. NumSlots - 1
       /\ {j + gens[g].thread_id : j \in FromNat(1)} \subseteq U8
  /\ \A t \in Threads : call[t].pc = "cas" =>
       /\ call[t].i \in 0 .. NumSlots - 1
       /\ {j + call[t].i : j \in FromNat(1)} \subseteq U8
C19_Step ==
  \A g \in 1 .. Len(gens) :
    /\ gens'[g].local_counter >= gens[g].local_counter
    /\ gens'[g].local_counter # gens[g].local_counter =>
         /\ gens[g].local_counter < CounterMax
         /\ gens'[g].local_counter = gens[g].local_counter + 1
    /\ gens'[g].thread_id = gens[g].thread_id
C19_NoOverflow == [](C19_Range) /\ [][C19_Step]_vars
\* the generator in slot 7 was called past its limit and then dropped
C19_Witness ==
  \E g \in Dropped :
    /\ gens[g].thread_id = NumSlots - 1
    /\ gens[g].local_counter = CounterMax
    /\ last.gen = g /\ last.res = ErrSequence
    /\ used_ids = U8 \ {NumSlots - 1}

====
